---- MODULE Spec2Model ----
(***************************************************************************)
(* Order / payment / refund workflow of the Spectrax backend                *)
(* (controller/orderController.js, kept as src/unnamed/part_000).           *)
(*                                                                         *)
(* Every handler is an async function: between two awaits the code runs     *)
(* without interruption, at an await other requests may run.  An action of  *)
(* this module is one such segment; a request slot p carries the handler's  *)
(* position pc[p], its request body and its local variables.                *)
(*   Spec      one request at a time (requests are served one after one)    *)
(*   SpecConc  two checkout requests interleaved at their awaits            *)
(*   SpecFail  one request at a time, order saves free to fail              *)
(* The auth controller (src/unnamed/part_001) is served one request at a    *)
(* time, one action per handler (SpecAuth).                                 *)
(***************************************************************************)
EXTENDS Integers, Sequences, FiniteSets, TLC

\* ---------------------------------------------------------------- bounds
MaxOrders == 1          \* checkout requests in one run
MaxUpdates == 2         \* status-update requests in one run
InitStock == 2          \* availableQuantity of variant v1 at the start
InitBalance == 4        \* balance of a wallet that exists at the start
MaxAuth == 4            \* auth requests in one run

\* ---------------------------------------------------------------- catalog
Procs == {1, 2}
Users == {"u1"}
Products == {"p1"}
VariantIds == {"v1", "v2"}
\* the variants array of each product document
VariantsOf(productId) == IF productId = "p1" THEN {"v1", "v2"} ELSE {}

Min(a, b) == IF a < b THEN a ELSE b
Max(a, b) == IF a > b THEN a ELSE b

\* ---------------------------------------------------------------- coupons
\* the request's new Date(); expireOn dates are on the same scale
Now == 5

Coupons == {"HALF", "FULL", "OVER", "FLAT", "OLD", "EDGE", "OFF"}
CouponDoc(code) ==
    CASE code = "HALF" -> [CouponType |-> "percentage", offerPrice |-> 50,
                           isListed |-> "active", expireOn |-> Now + 4]
      [] code = "FULL" -> [CouponType |-> "percentage", offerPrice |-> 100,
                           isListed |-> "active", expireOn |-> Now + 4]
      [] code = "OVER" -> [CouponType |-> "percentage", offerPrice |-> 150,
                           isListed |-> "active", expireOn |-> Now + 4]
      [] code = "FLAT" -> [CouponType |-> "flat", offerPrice |-> 6,
                           isListed |-> "active", expireOn |-> Now + 1]
      [] code = "OLD"  -> [CouponType |-> "flat", offerPrice |-> 2,
                           isListed |-> "active", expireOn |-> Now - 2]
      [] code = "EDGE" -> [CouponType |-> "flat", offerPrice |-> 2,
                           isListed |-> "active", expireOn |-> Now]
      [] OTHER         -> [CouponType |-> "percentage", offerPrice |-> 50,
                           isListed |-> "inactive", expireOn |-> Now + 4]

\* a coupon that ends at the very moment of the request still applies
CouponFindOneNotBefore(couponCode) ==
    IF /\ couponCode \in Coupons
       /\ CouponDoc(couponCode).isListed = "active"
       /\ CouponDoc(couponCode).expireOn >= Now
    THEN couponCode ELSE "null"

\* Coupon.findOne({name, isListed: "active", expireOn: {$gt: now}});
\* "null" when no document matches, "" is the absent couponCode
CouponFindOne(couponCode) ==
    IF /\ couponCode \in Coupons
       /\ CouponDoc(couponCode).isListed = "active"
       /\ CouponDoc(couponCode).expireOn > Now
    THEN couponCode ELSE "null"

appliedCouponOf(couponCode) ==
    IF couponCode # "" THEN CouponFindOne(couponCode) ELSE "null"

\* the computed discount is not clamped to the total
discountAmountOfUnclamped(appliedCoupon, totalAmount) ==
    IF appliedCoupon = "null" THEN 0
    ELSE IF CouponDoc(appliedCoupon).CouponType = "percentage"
         THEN (totalAmount * CouponDoc(appliedCoupon).offerPrice) \div 100
         ELSE CouponDoc(appliedCoupon).offerPrice

\* lines 116-123 of placeOrder; the amounts of the model divide exactly
discountAmountOf(appliedCoupon, totalAmount) ==
    IF appliedCoupon = "null" THEN 0
    ELSE Min(IF CouponDoc(appliedCoupon).CouponType = "percentage"
             THEN (totalAmount * CouponDoc(appliedCoupon).offerPrice) \div 100
             ELSE CouponDoc(appliedCoupon).offerPrice,
             totalAmount)

\* lines 249-254 of placeWalletOrder: the same computation as a conditional
\* expression, then Math.min
walletDiscountAmountOf(appliedCoupon, totalAmount) ==
    IF appliedCoupon = "null" THEN 0
    ELSE LET discountAmount ==
                 IF CouponDoc(appliedCoupon).CouponType = "percentage"
                 THEN (totalAmount * CouponDoc(appliedCoupon).offerPrice) \div 100
                 ELSE CouponDoc(appliedCoupon).offerPrice
         IN  Min(discountAmount, totalAmount)

\* finalAmount || (totalAmount - discountAmount): 0 stands for every falsy
\* finalAmount of the body (0 or absent)
finalAmountOf(finalAmount, totalAmount, discountAmount) ==
    IF finalAmount # 0 THEN finalAmount ELSE totalAmount - discountAmount

\* every created order starts as Processing
orderStatusOfAlwaysProcessing(status) == "Processing"

orderStatusOf(status) ==
    IF status = "Payment Failed" THEN "Payment Failed" ELSE "Processing"

\* every order whose payment did not fail counts as paid
paymentStatusOfAlwaysPaid(status, paymentMethod) ==
    IF status = "Payment Failed" THEN "Failed" ELSE "Completed"

paymentStatusOf(status, paymentMethod) ==
    IF status = "Payment Failed" THEN "Failed"
    ELSE IF paymentMethod = "RazorpayX" THEN "Completed" ELSE "Pending"

\* ---------------------------------------------------------------- stock
\* Product.findOne({_id, 'variants._id': variantId,
\*                  'variants.availableQuantity': {$gte: quantity}}):
\* the two conditions on the variants array are matched independently, each
\* by some element of the array
StockQueryMatches(st, item) ==
    /\ item.productId \in Products
    /\ item.variantId \in VariantsOf(item.productId)
    /\ \E v \in VariantsOf(item.productId) : st[v] >= item.quantity

\* {$inc: {'variants.$.availableQuantity': -item.quantity}}
DecrementedStock(st, item) ==
    IF item.productId \in Products /\ item.variantId \in VariantsOf(item.productId)
    THEN [st EXCEPT ![item.variantId] = @ - item.quantity]
    ELSE st

\* the restock adds one unit whatever the quantity
RestockedStockByOne(st, item) ==
    IF item.productId \in Products /\ item.variantId \in VariantsOf(item.productId)
    THEN [st EXCEPT ![item.variantId] = @ + 1]
    ELSE st

\* {$inc: {'variants.$.availableQuantity': item.quantity}}
RestockedStock(st, item) ==
    IF item.productId \in Products /\ item.variantId \in VariantsOf(item.productId)
    THEN [st EXCEPT ![item.variantId] = @ + item.quantity]
    ELSE st

\* total quantity of variant v over the line items of a products array
RECURSIVE QtyOf(_, _)
QtyOf(products, v) ==
    IF products = << >> THEN 0
    ELSE (IF Head(products).variantId = v THEN Head(products).quantity ELSE 0)
         + QtyOf(Tail(products), v)

\* ---------------------------------------------------------------- documents
NoWallet == [exists |-> FALSE, balance |-> 0, transactions |-> << >>]
NoRazorpay == [orderId |-> "", paymentId |-> "", signature |-> ""]
NoOrder == [userId |-> "", products |-> << >>, paymentMethod |-> "",
            totalAmount |-> 0, coupon |-> "null", discountAmount |-> 0,
            finalAmount |-> 0, orderStatus |-> "", paymentStatus |-> "",
            razorpay |-> NoRazorpay, returnDetails |-> FALSE]
NoBody == [userId |-> "", products |-> << >>, paymentMethod |-> "",
           couponCode |-> "", totalAmount |-> 0, finalAmount |-> 0,
           razorpayOrderId |-> "", status |-> "", id |-> 0,
           returnReason |-> FALSE, returnDescription |-> FALSE,
           razorpay_order_id |-> "", razorpay_payment_id |-> "",
           razorpay_signature |-> ""]
NoLoc == [i |-> 0, pend |-> {}, appliedCoupon |-> "null", discountAmount |-> 0,
          userWallet |-> NoWallet, orderDetails |-> NoOrder, newOrder |-> 0,
          snap |-> << >>, pendSave |-> {}, ret |-> ""]

Item(v, q) == [productId |-> "p1", variantId |-> v, quantity |-> q]

\* wallet.transactions.push({transaction_id, type, amount, description, status});
\* description is the id of the order a refund names, 0 for a wallet payment
Transaction(id, type, amount, description) ==
    [transaction_id |-> id, type |-> type, amount |-> amount,
     description |-> description, status |-> "completed"]

\* ---------------------------------------------------------------------------
\* The auth controller: sessions, users, one-time passwords

Sessions == {"s1", "s2"}
Emails == {"a@x", "b@x", "c@x"}
Passwords == {"pw1", "pw2"}
Otps == {"111111", "222222"}

\* JavaScript truthiness of a string, null or undefined
Truthy(x) == x \notin {"null", "undefined", ""}

\* a session before signup; null and undefined user data alike cannot be
\* destructured
NoUserData == [present |-> FALSE, email |-> "", password |-> ""]
NoSession == [userOtp |-> "undefined", userData |-> NoUserData]

\* lines 13-19: bcrypt.hash(password, 10)
securePassword(password) ==
    CASE password = "pw1" -> "$2b$10$pw1"
      [] password = "pw2" -> "$2b$10$pw2"
      [] OTHER -> "$2b$10$"

\* line 261: bcrypt.compare(password, user.password)
isPasswordValid(password, hash) == securePassword(password) = hash

\* User.findOne({ email }): the index of the first user with the email, 0 for
\* null
UserFindOne(us, email) ==
    IF \E k \in 1 .. Len(us) : us[k].email = email
    THEN CHOOSE k \in 1 .. Len(us) :
             /\ us[k].email = email
             /\ \A j \in 1 .. k - 1 : us[j].email # email
    ELSE 0

\* lines 120-126: new User({..., email, password: hashedPassword}); the handler
\* gives no status
NewUser(userData) ==
    [email |-> userData.email, password |-> securePassword(userData.password),
     status |-> "default"]

NoAuthRequest ==
    [n |-> 0, handler |-> "", sid |-> "", email |-> "", password |-> "", otp |-> "",
     code |-> 0, message |-> "", cookies |-> {}]

VARIABLES
    stock,      \* variant id -> availableQuantity
    orders,     \* the orders collection, in insertion order; _id is the index
    wallets,    \* user id -> wallet document (exists = FALSE: none)
    cart,       \* user id -> number of items in the cart
    nextTxId,   \* source of fresh ObjectIds for transaction_id
    nord,       \* checkout requests received so far
    nupd,       \* status-update requests received so far
    pc,         \* request slot -> position in its handler
    handler,    \* request slot -> handler being served
    body,       \* request slot -> request body and params
    loc,        \* request slot -> local variables of the handler
    res,        \* request slot -> status code of the response (0: none yet)
    pre,        \* request slot -> the stores when the request arrived
    session,    \* session id -> req.session of the auth controller
    users,      \* the users collection, in insertion order
    generated,  \* session id -> the last value generateOtp() returned for it
    ares        \* the last auth request served and its answer

vars == <<stock, orders, wallets, cart, nextTxId, nord, nupd, pc, handler, body, loc, res, pre,
          session, users, generated, ares>>
auth == <<session, users, generated, ares>>
store == <<stock, orders, wallets, cart, nextTxId>>

Snapshot == [stock |-> stock, orders |-> orders, wallets |-> wallets, cart |-> cart]

InitSlots ==
    /\ pc = [p \in Procs |-> "idle"]
    /\ handler = [p \in Procs |-> ""]
    /\ body = [p \in Procs |-> NoBody]
    /\ loc = [p \in Procs |-> NoLoc]
    /\ res = [p \in Procs |-> 0]
    /\ pre = [p \in Procs |-> [stock |-> [v \in VariantIds |-> 0], orders |-> << >>,
                               wallets |-> [u \in Users |-> NoWallet],
                               cart |-> [u \in Users |-> 0]]]

\* two registered users, one of them blocked; no session has signed up
InitAuth ==
    /\ session = [s \in Sessions |-> NoSession]
    /\ users = << [email |-> "a@x", password |-> securePassword("pw1"), status |-> "active"],
                  [email |-> "b@x", password |-> securePassword("pw1"), status |-> "blocked"] >>
    /\ generated = [s \in Sessions |-> [by |-> "", otp |-> ""]]
    /\ ares = NoAuthRequest

InitStores ==
    /\ InitAuth
    /\ orders = << >>
    /\ wallets \in [Users -> {NoWallet, [exists |-> TRUE, balance |-> InitBalance,
                                         transactions |-> << >>]}]
    /\ cart = [u \in Users |-> 1]
    /\ nextTxId = 1
    /\ nord = 0
    /\ nupd = 0

Init ==
    /\ stock = [v \in VariantIds |-> IF v = "v1" THEN InitStock ELSE InitStock - 1]
    /\ InitStores
    /\ InitSlots

Free(p) == pc[p] \in {"idle", "done"}

\* the request in slot p ends with status code c
Respond(p, c) ==
    /\ pc' = [pc EXCEPT ![p] = "done"]
    /\ res' = [res EXCEPT ![p] = c]

\* a request arrives in slot p
Receive(p, h, b) ==
    /\ Free(p)
    /\ handler' = [handler EXCEPT ![p] = h]
    /\ body' = [body EXCEPT ![p] = b]
    /\ pre' = [pre EXCEPT ![p] = Snapshot]
    /\ UNCHANGED auth

\* ---------------------------------------------------------------- placeOrder
orderDataOf(b, appliedCoupon, discountAmount) ==
    [userId |-> b.userId, products |-> b.products,
     paymentMethod |-> b.paymentMethod, totalAmount |-> b.totalAmount,
     coupon |-> appliedCoupon, discountAmount |-> discountAmount,
     finalAmount |-> finalAmountOf(b.finalAmount, b.totalAmount, discountAmount),
     orderStatus |-> orderStatusOf(b.status),
     paymentStatus |-> paymentStatusOf(b.status, b.paymentMethod),
     razorpay |-> IF b.paymentMethod = "RazorpayX" /\ b.razorpayOrderId # ""
                  THEN [NoRazorpay EXCEPT !.orderId = b.razorpayOrderId]
                  ELSE NoRazorpay,
     returnDetails |-> FALSE]

\* lines 88-124: validation and coupon lookup
placeOrder(p, b) ==
    /\ nord' = nord + 1
    /\ Receive(p, "placeOrder", b)
    /\ IF b.userId = "" \/ b.products = << >> \/ b.paymentMethod = ""
       THEN /\ Respond(p, 400)
            /\ loc' = [loc EXCEPT ![p] = NoLoc]
       ELSE /\ pc' = [pc EXCEPT ![p] = "po_check"]
            /\ res' = [res EXCEPT ![p] = 0]
            /\ loc' = [loc EXCEPT ![p] =
                   [NoLoc EXCEPT !.i = 1,
                                 !.appliedCoupon = appliedCouponOf(b.couponCode),
                                 !.discountAmount =
                                     discountAmountOf(appliedCouponOf(b.couponCode),
                                                      b.totalAmount)]]
    /\ UNCHANGED <<store, nupd>>

\* lines 126-142: one Product.findOne of the availability loop
placeOrderCheckStock(p) ==
    /\ pc[p] = "po_check"
    /\ IF ~StockQueryMatches(stock, body[p].products[loc[p].i])
       THEN /\ Respond(p, 400)
            /\ loc' = loc
       ELSE /\ res' = res
            /\ IF loc[p].i = Len(body[p].products)
               THEN /\ pc' = [pc EXCEPT ![p] = "po_save"]
                    /\ loc' = loc
               ELSE /\ pc' = pc
                    /\ loc' = [loc EXCEPT ![p].i = @ + 1]
    /\ UNCHANGED <<store, nord, nupd, handler, body, pre, auth>>

\* lines 144-181: newOrder.save(); a failed payment answers at once
placeOrderSave(p) ==
    /\ pc[p] = "po_save"
    /\ orders' = Append(orders,
                        orderDataOf(body[p], loc[p].appliedCoupon, loc[p].discountAmount))
    /\ IF orderStatusOf(body[p].status) # "Payment Failed"
       THEN /\ pc' = [pc EXCEPT ![p] = "po_update"]
            /\ res' = res
            /\ loc' = [loc EXCEPT ![p].newOrder = Len(orders) + 1,
                                  ![p].pend = 0 .. Len(body[p].products)]
       ELSE /\ Respond(p, 201)
            /\ loc' = [loc EXCEPT ![p].newOrder = Len(orders) + 1]
    /\ UNCHANGED <<stock, wallets, cart, nextTxId, nord, nupd, handler, body, pre, auth>>

\* the request answers 201 once every update of the Promise.all is done
UpdateDone(p, k) ==
    IF loc[p].pend = {k}
    THEN Respond(p, 201)
    ELSE pc' = pc /\ res' = res

\* lines 183-195: one stock update of the Promise.all
placeOrderStockUpdate(p, k) ==
    /\ pc[p] = "po_update"
    /\ k \in loc[p].pend /\ k > 0
    /\ stock' = DecrementedStock(stock, body[p].products[k])
    /\ loc' = [loc EXCEPT ![p].pend = @ \ {k}]
    /\ UpdateDone(p, k)
    /\ UNCHANGED <<orders, wallets, cart, nextTxId, nord, nupd, handler, body, pre, auth>>

\* lines 197-201: the cart update of the Promise.all
placeOrderClearCart(p) ==
    /\ pc[p] = "po_update"
    /\ 0 \in loc[p].pend
    /\ cart' = [cart EXCEPT ![body[p].userId] = 0]
    /\ loc' = [loc EXCEPT ![p].pend = @ \ {0}]
    /\ UpdateDone(p, 0)
    /\ UNCHANGED <<stock, orders, wallets, nextTxId, nord, nupd, handler, body, pre, auth>>

\* ---------------------------------------------------------------- placeWalletOrder
\* the balance is not compared with finalAmount
InsufficientBalanceNoCompare(userWallet, finalAmount) == ~userWallet.exists

\* userWallet.balance < finalAmount
InsufficientBalance(userWallet, finalAmount) ==
    ~userWallet.exists \/ userWallet.balance < finalAmount

\* the debit is applied twice
DebitedBalanceTwice(balance, finalAmount) == balance - finalAmount - finalAmount

\* userWallet.balance -= finalAmount
DebitedBalance(balance, finalAmount) == balance - finalAmount

\* the save replaces the log by the new transaction
SavedWalletOverwritingLog(current, balance, transaction) ==
    [exists |-> TRUE, balance |-> balance, transactions |-> << transaction >>]

\* userWallet.save() of a loaded document: $set of the balance computed from
\* the loaded copy, $push of the new transaction
SavedWallet(current, balance, transaction) ==
    [exists |-> TRUE, balance |-> balance,
     transactions |-> Append(current.transactions, transaction)]

walletOrderDataOf(b, appliedCoupon, discountAmount) ==
    [userId |-> b.userId, products |-> b.products,
     paymentMethod |-> "Wallet", totalAmount |-> b.totalAmount,
     coupon |-> appliedCoupon, discountAmount |-> discountAmount,
     finalAmount |-> finalAmountOf(b.finalAmount, b.totalAmount, discountAmount),
     orderStatus |-> "Processing", paymentStatus |-> "Completed",
     razorpay |-> NoRazorpay, returnDetails |-> FALSE]

\* lines 225-255: validation, Wallet.findOne, balance check, coupon lookup
placeWalletOrder(p, b) ==
    /\ nord' = nord + 1
    /\ Receive(p, "placeWalletOrder", b)
    /\ IF b.userId = "" \/ b.products = << >>
       THEN /\ Respond(p, 400)
            /\ loc' = [loc EXCEPT ![p] = NoLoc]
       ELSE IF InsufficientBalance(wallets[b.userId], b.finalAmount)
       THEN /\ Respond(p, 400)
            /\ loc' = [loc EXCEPT ![p] = [NoLoc EXCEPT !.userWallet = wallets[b.userId]]]
       ELSE /\ pc' = [pc EXCEPT ![p] = "wo_check"]
            /\ res' = [res EXCEPT ![p] = 0]
            /\ loc' = [loc EXCEPT ![p] =
                   [NoLoc EXCEPT !.i = 1,
                                 !.userWallet = wallets[b.userId],
                                 !.appliedCoupon = appliedCouponOf(b.couponCode),
                                 !.discountAmount =
                                     walletDiscountAmountOf(appliedCouponOf(b.couponCode),
                                                      b.totalAmount)]]
    /\ UNCHANGED <<store, nupd>>

\* lines 257-267: one Product.findOne of the availability loop
placeWalletOrderCheckStock(p) ==
    /\ pc[p] = "wo_check"
    /\ IF ~StockQueryMatches(stock, body[p].products[loc[p].i])
       THEN /\ Respond(p, 400)
            /\ loc' = loc
       ELSE /\ res' = res
            /\ IF loc[p].i = Len(body[p].products)
               THEN /\ pc' = [pc EXCEPT ![p] = "wo_debit"]
                    /\ loc' = loc
               ELSE /\ pc' = pc
                    /\ loc' = [loc EXCEPT ![p].i = @ + 1]
    /\ UNCHANGED <<store, nord, nupd, handler, body, pre, auth>>

\* lines 269-278: debit of the loaded wallet and userWallet.save()
placeWalletOrderDebit(p) ==
    /\ pc[p] = "wo_debit"
    /\ wallets' = [wallets EXCEPT ![body[p].userId] =
           SavedWallet(@, DebitedBalance(loc[p].userWallet.balance, body[p].finalAmount),
                       Transaction(nextTxId, "wallet", body[p].finalAmount, 0))]
    /\ nextTxId' = nextTxId + 1
    /\ pc' = [pc EXCEPT ![p] = "wo_save"]
    /\ UNCHANGED <<stock, orders, cart, nord, nupd, handler, body, loc, res, pre, auth>>

\* lines 280-308: newOrder.save()
placeWalletOrderSave(p) ==
    /\ pc[p] = "wo_save"
    /\ orders' = Append(orders,
                        walletOrderDataOf(body[p], loc[p].appliedCoupon,
                                          loc[p].discountAmount))
    /\ pc' = [pc EXCEPT ![p] = "wo_update"]
    /\ loc' = [loc EXCEPT ![p].newOrder = Len(orders) + 1,
                          ![p].pend = 0 .. Len(body[p].products)]
    /\ UNCHANGED <<stock, wallets, cart, nextTxId, nord, nupd, handler, body, res, pre, auth>>

\* lines 311-316: one stock update of the Promise.all
placeWalletOrderStockUpdate(p, k) ==
    /\ pc[p] = "wo_update"
    /\ k \in loc[p].pend /\ k > 0
    /\ stock' = DecrementedStock(stock, body[p].products[k])
    /\ loc' = [loc EXCEPT ![p].pend = @ \ {k}]
    /\ UpdateDone(p, k)
    /\ UNCHANGED <<orders, wallets, cart, nextTxId, nord, nupd, handler, body, pre, auth>>

\* line 317: the cart update of the Promise.all
placeWalletOrderClearCart(p) ==
    /\ pc[p] = "wo_update"
    /\ 0 \in loc[p].pend
    /\ cart' = [cart EXCEPT ![body[p].userId] = 0]
    /\ loc' = [loc EXCEPT ![p].pend = @ \ {0}]
    /\ UpdateDone(p, 0)
    /\ UNCHANGED <<stock, orders, wallets, nextTxId, nord, nupd, handler, body, pre, auth>>

\* ---------------------------------------------------------------- processRefund
\* lines 621-623: Wallet.findOne({userId: order.userId})
processRefundFind(p) ==
    /\ pc[p] = "rf_find"
    /\ loc' = [loc EXCEPT ![p].userWallet = wallets[loc[p].orderDetails.userId]]
    /\ pc' = [pc EXCEPT ![p] = "rf_save"]
    /\ UNCHANGED <<store, nord, nupd, handler, body, res, pre, auth>>

\* wallet.balance += refundAmount
CreditedBalance(balance, refundAmount) == balance + refundAmount

\* the wallet is opened empty, the refund not credited
OpenedWalletEmpty(order, orderId, txId) ==
    [exists |-> TRUE, balance |-> 0, transactions |-> << >>]

\* lines 625-637: new Wallet({userId, balance: refundAmount, transactions: [refund]})
OpenedWallet(order, orderId, txId) ==
    [exists |-> TRUE, balance |-> order.finalAmount,
     transactions |-> << Transaction(txId, "refund", order.finalAmount, orderId) >>]

\* a wallet that already holds a refund for the order is left as it is
RefundedWalletOncePerOrder(current, loaded, order, orderId, txId) ==
    IF ~loaded.exists
    THEN [exists |-> TRUE, balance |-> order.finalAmount,
          transactions |-> << Transaction(txId, "refund", order.finalAmount, orderId) >>]
    ELSE IF \E k \in 1 .. Len(loaded.transactions) :
                /\ loaded.transactions[k].type = "refund"
                /\ loaded.transactions[k].description = orderId
         THEN current
         ELSE SavedWallet(current, CreditedBalance(loaded.balance, order.finalAmount),
                          Transaction(txId, "refund", order.finalAmount, orderId))

\* lines 625-651: a new wallet opened with the refund, or the loaded wallet
\* credited; wallet.save()
RefundedWallet(current, loaded, order, orderId, txId) ==
    IF ~loaded.exists
    THEN OpenedWallet(order, orderId, txId)
    ELSE SavedWallet(current, CreditedBalance(loaded.balance, order.finalAmount),
                     Transaction(txId, "refund", order.finalAmount, orderId))

processRefundSave(p) ==
    /\ pc[p] = "rf_save"
    /\ wallets' = [wallets EXCEPT ![loc[p].orderDetails.userId] =
           RefundedWallet(@, loc[p].userWallet, loc[p].orderDetails,
                          body[p].id, nextTxId)]
    /\ nextTxId' = nextTxId + 1
    /\ pc' = [pc EXCEPT ![p] = loc[p].ret]
    /\ UNCHANGED <<stock, orders, cart, nord, nupd, handler, body, loc, res, pre, auth>>

\* ---------------------------------------------------------------- orderStatusUpdate
ValidStatuses == {"Processing", "Confirmed", "Shipped", "Delivered", "Cancelled", "Returned"}

\* a Delivered order can be cancelled
CannotCancelShippedOnly(orderStatus) == orderStatus = "Shipped"

\* lines 503-508: the statuses from which a cancellation is refused
CannotCancel(orderStatus) == orderStatus = "Shipped" \/ orderStatus = "Delivered"

\* every completed payment is refunded, whatever the payment method
CancelRefundsAnyMethod(order) == order.paymentStatus = "Completed"

\* lines 528-537: the cancellation calls processRefund
CancelRefunds(order) ==
    IF order.paymentMethod = "RazorpayX" /\ order.paymentStatus = "Completed"
    THEN TRUE
    ELSE /\ order.paymentMethod = "RazorpayX"
         /\ order.orderStatus \in {"Processing", "Confirmed"}
         /\ order.paymentStatus = "Completed"

\* a Shipped order can be returned too
CanReturnShippedToo(orderStatus) == orderStatus \in {"Shipped", "Delivered"}

\* lines 541-546: the statuses from which a return is accepted
CanReturn(orderStatus) == orderStatus = "Delivered"

\* the return refunds under the cancellation's condition
ReturnRefundsGatewayOnly(order) ==
    order.paymentMethod = "RazorpayX" /\ order.paymentStatus = "Completed"

\* lines 581, 438: the return calls processRefund
ReturnRefunds(order) == order.paymentStatus = "Completed"

\* only a delivery marks the order as paid
paymentStatusAfterDeliveredOnly(status, paymentStatus) ==
    IF status = "Delivered" THEN "Completed" ELSE paymentStatus

\* lines 586-593: paymentStatus written with the new status
paymentStatusAfter(status, paymentStatus) ==
    IF status = "Processing" \/ status = "Delivered" THEN "Completed" ELSE paymentStatus

\* lines 482-508, 541-546: validation, Order.findById, the guards
orderStatusUpdate(p, id, status) ==
    /\ nupd' = nupd + 1
    /\ nord' = nord
    /\ Receive(p, "orderStatusUpdate", [NoBody EXCEPT !.id = id, !.status = status])
    /\ IF status = ""
       THEN Respond(p, 400) /\ loc' = [loc EXCEPT ![p] = NoLoc]
       ELSE IF id \notin 1 .. Len(orders)
       THEN Respond(p, 404) /\ loc' = [loc EXCEPT ![p] = NoLoc]
       ELSE LET od == orders[id]
                l == [NoLoc EXCEPT !.orderDetails = od]
            IN  IF status \notin ValidStatuses
                THEN Respond(p, 400) /\ loc' = [loc EXCEPT ![p] = l]
                ELSE IF status = "Cancelled"
                THEN IF CannotCancel(od.orderStatus)
                     THEN Respond(p, 400) /\ loc' = [loc EXCEPT ![p] = l]
                     ELSE /\ pc' = [pc EXCEPT ![p] = "su_restock"]
                          /\ res' = [res EXCEPT ![p] = 0]
                          /\ loc' = [loc EXCEPT ![p] =
                                 [l EXCEPT !.pend = 1 .. Len(od.products)]]
                ELSE IF status = "Returned"
                THEN IF ~CanReturn(od.orderStatus)
                     THEN Respond(p, 400) /\ loc' = [loc EXCEPT ![p] = l]
                     ELSE /\ pc' = [pc EXCEPT ![p] = "su_return"]
                          /\ res' = [res EXCEPT ![p] = 0]
                          /\ loc' = [loc EXCEPT ![p] =
                                 [l EXCEPT !.pend = 1 .. Len(od.products),
                                           !.snap = [k \in 1 .. Len(od.products) |-> stock]]]
                ELSE /\ pc' = [pc EXCEPT ![p] = "su_save"]
                     /\ res' = [res EXCEPT ![p] = 0]
                     /\ loc' = [loc EXCEPT ![p] = l]
    /\ UNCHANGED store

\* where the handler goes on once the stock updates of the Promise.all are done
AfterRestock(p, k, refunds) ==
    IF loc[p].pend = {k} /\ loc[p].pendSave = {}
    THEN IF refunds
         THEN /\ pc' = [pc EXCEPT ![p] = "rf_find"]
              /\ loc' = [loc EXCEPT ![p].pend = {}, ![p].ret = "su_save"]
         ELSE /\ pc' = [pc EXCEPT ![p] = "su_save"]
              /\ loc' = [loc EXCEPT ![p].pend = {}]
    ELSE /\ pc' = pc
         /\ loc' = [loc EXCEPT ![p].pend = @ \ {k}]

\* lines 510-526: one stock update of the cancellation's Promise.all
orderStatusUpdateCancelRestock(p, k) ==
    /\ pc[p] = "su_restock"
    /\ k \in loc[p].pend
    /\ stock' = RestockedStock(stock, loc[p].orderDetails.products[k])
    /\ AfterRestock(p, k, CancelRefunds(loc[p].orderDetails))
    /\ UNCHANGED <<orders, wallets, cart, nextTxId, nord, nupd, handler, body, res, pre, auth>>

\* lines 553-565: Product.findOne of one returned item
orderStatusUpdateReturnFind(p, k) ==
    /\ pc[p] = "su_return"
    /\ k \in loc[p].pend
    /\ loc' = [loc EXCEPT ![p].pend = @ \ {k},
                          ![p].pendSave = @ \cup {k},
                          ![p].snap[k] = stock]
    /\ UNCHANGED <<store, nord, nupd, pc, handler, body, res, pre, auth>>

\* lines 567-569: availableQuantity += quantity on the loaded product and
\* product.save(), which writes the variant's new quantity
orderStatusUpdateReturnSave(p, k) ==
    /\ pc[p] = "su_return"
    /\ k \in loc[p].pendSave
    /\ LET item == loc[p].orderDetails.products[k]
       IN  stock' = [stock EXCEPT ![item.variantId] =
                         loc[p].snap[k][item.variantId] + item.quantity]
    /\ IF loc[p].pend = {} /\ loc[p].pendSave = {k}
       THEN IF ReturnRefunds(loc[p].orderDetails)
            THEN /\ pc' = [pc EXCEPT ![p] = "rf_find"]
                 /\ loc' = [loc EXCEPT ![p].pendSave = {}, ![p].ret = "su_save"]
            ELSE /\ pc' = [pc EXCEPT ![p] = "su_save"]
                 /\ loc' = [loc EXCEPT ![p].pendSave = {}]
       ELSE /\ pc' = pc
            /\ loc' = [loc EXCEPT ![p].pendSave = @ \ {k}]
    /\ UNCHANGED <<orders, wallets, cart, nextTxId, nord, nupd, handler, body, res, pre, auth>>

\* lines 586-613: orderDetails.save() and the answer
orderStatusUpdateSave(p) ==
    /\ pc[p] = "su_save"
    /\ orders' = [orders EXCEPT
           ![body[p].id].orderStatus = body[p].status,
           ![body[p].id].paymentStatus = paymentStatusAfter(body[p].status, @)]
    /\ Respond(p, 200)
    /\ UNCHANGED <<stock, wallets, cart, nextTxId, nord, nupd, handler, body, loc, pre, auth>>

\* ---------------------------------------------------------------- returnOrderStatusUpdate
\* lines 396-438: validation, Order.findById, the guards
returnOrderStatusUpdate(p, id, status, returnReason, returnDescription) ==
    /\ nupd' = nupd + 1
    /\ nord' = nord
    /\ Receive(p, "returnOrderStatusUpdate",
               [NoBody EXCEPT !.id = id, !.status = status,
                              !.returnReason = returnReason,
                              !.returnDescription = returnDescription])
    /\ IF status = ""
       THEN Respond(p, 400) /\ loc' = [loc EXCEPT ![p] = NoLoc]
       ELSE IF id \notin 1 .. Len(orders)
       THEN Respond(p, 404) /\ loc' = [loc EXCEPT ![p] = NoLoc]
       ELSE LET od == orders[id]
                l == [NoLoc EXCEPT !.orderDetails = od]
            IN  IF \/ status # "Returned"
                   \/ ~returnReason \/ ~returnDescription
                   \/ ~CanReturn(od.orderStatus)
                THEN Respond(p, 400) /\ loc' = [loc EXCEPT ![p] = l]
                ELSE /\ res' = [res EXCEPT ![p] = 0]
                     /\ IF ReturnRefunds(od)
                        THEN /\ pc' = [pc EXCEPT ![p] = "rf_find"]
                             /\ loc' = [loc EXCEPT ![p] = [l EXCEPT !.ret = "ro_save"]]
                        ELSE /\ pc' = [pc EXCEPT ![p] = "ro_save"]
                             /\ loc' = [loc EXCEPT ![p] = l]
    /\ UNCHANGED store

\* lines 430-435, 443-444, 464-465: orderDetails.save()
returnOrderStatusUpdateSave(p) ==
    /\ pc[p] = "ro_save"
    /\ orders' = [orders EXCEPT ![body[p].id].orderStatus = body[p].status,
                                ![body[p].id].returnDetails = TRUE]
    /\ Respond(p, 200)
    /\ UNCHANGED <<stock, wallets, cart, nextTxId, nord, nupd, handler, body, loc, pre, auth>>

\* ---------------------------------------------------------------- verifyRazorpayPayment
\* crypto.createHmac("sha256", RAZORPAY_KEY_SECRET)
\*       .update(razorpay_order_id + "|" + razorpay_payment_id).digest("hex"):
\* a different digest for every pair of ids
expectedSignature(razorpay_order_id, razorpay_payment_id) ==
    CASE razorpay_order_id = "rzp1" /\ razorpay_payment_id = "pay1" -> "mac_rzp1_pay1"
      [] razorpay_order_id = "rzp1" /\ razorpay_payment_id = "pay2" -> "mac_rzp1_pay2"
      [] razorpay_order_id = "rzp2" /\ razorpay_payment_id = "pay1" -> "mac_rzp2_pay1"
      [] OTHER -> "mac_rzp2_pay2"

\* any signature that is present is accepted
isAuthenticIfPresent(expected, razorpay_signature) == razorpay_signature # ""

\* line 53: expectedSignature === razorpay_signature
isAuthentic(expected, razorpay_signature) == expected = razorpay_signature

\* the first order whose razorpay.orderId is the given id, 0 when there is none
MatchingOrder(os, razorpay_order_id) ==
    IF \E j \in 1 .. Len(os) : os[j].razorpay.orderId = razorpay_order_id
    THEN CHOOSE j \in 1 .. Len(os) :
             /\ os[j].razorpay.orderId = razorpay_order_id
             /\ \A i \in 1 .. j - 1 : os[i].razorpay.orderId # razorpay_order_id
    ELSE 0

\* the verified order is also put back to Processing
VerifiedOrderReopened(order, razorpay_payment_id, razorpay_signature) ==
    [order EXCEPT !.razorpay.paymentId = razorpay_payment_id,
                  !.razorpay.signature = razorpay_signature,
                  !.paymentStatus = "Completed",
                  !.orderStatus = "Processing"]

\* lines 64-70: the $set of the update
VerifiedOrder(order, razorpay_payment_id, razorpay_signature) ==
    [order EXCEPT !.razorpay.paymentId = razorpay_payment_id,
                  !.razorpay.signature = razorpay_signature,
                  !.paymentStatus = "Completed"]

\* lines 38-77: signature check, Order.findOneAndUpdate, the answer
verifyRazorpayPayment(p, razorpay_order_id, razorpay_payment_id, razorpay_signature) ==
    /\ nupd' = nupd + 1
    /\ nord' = nord
    /\ Receive(p, "verifyRazorpayPayment",
               [NoBody EXCEPT !.razorpay_order_id = razorpay_order_id,
                              !.razorpay_payment_id = razorpay_payment_id,
                              !.razorpay_signature = razorpay_signature])
    /\ loc' = [loc EXCEPT ![p] = NoLoc]
    /\ IF ~isAuthentic(expectedSignature(razorpay_order_id, razorpay_payment_id),
                       razorpay_signature)
       THEN /\ Respond(p, 400)
            /\ orders' = orders
       ELSE /\ Respond(p, 200)
            /\ LET j == MatchingOrder(orders, razorpay_order_id)
               IN  orders' = IF j = 0 THEN orders
                             ELSE [orders EXCEPT ![j] =
                                      VerifiedOrder(@, razorpay_payment_id,
                                                    razorpay_signature)]
    /\ UNCHANGED <<stock, wallets, cart, nextTxId>>

\* ---------------------------------------------------------------- refundOrders
\* any order paid online and Completed is refunded, cancelled or not
EligibleForRefundUncancelled(order) ==
    order.paymentMethod = "RazorpayX" /\ order.paymentStatus = "Completed"

\* lines 688 and 695: the two checks that answer 400
EligibleForRefund(order) ==
    /\ ~(order.paymentMethod # "RazorpayX" \/ order.paymentStatus # "Completed")
    /\ ~(order.orderStatus # "Cancelled")

\* lines 704-709: new Wallet({userId}); the balance starts at the schema default
NewWallet == [exists |-> TRUE, balance |-> 0, transactions |-> << >>]

\* lines 680-699: Order.findById and the eligibility checks
refundOrders(p, orderId) ==
    /\ nupd' = nupd + 1
    /\ nord' = nord
    /\ Receive(p, "refundOrders", [NoBody EXCEPT !.id = orderId])
    /\ IF orderId \notin 1 .. Len(orders)
       THEN Respond(p, 404) /\ loc' = [loc EXCEPT ![p] = NoLoc]
       ELSE LET l == [NoLoc EXCEPT !.orderDetails = orders[orderId]]
            IN  IF ~EligibleForRefund(orders[orderId])
                THEN Respond(p, 400) /\ loc' = [loc EXCEPT ![p] = l]
                ELSE /\ pc' = [pc EXCEPT ![p] = "ro_find"]
                     /\ res' = [res EXCEPT ![p] = 0]
                     /\ loc' = [loc EXCEPT ![p] = l]
    /\ UNCHANGED store

\* lines 703-709: Wallet.findOne, a new wallet when there is none
refundOrdersFind(p) ==
    /\ pc[p] = "ro_find"
    /\ loc' = [loc EXCEPT ![p].userWallet =
           IF wallets[loc[p].orderDetails.userId].exists
           THEN wallets[loc[p].orderDetails.userId]
           ELSE NewWallet]
    /\ pc' = [pc EXCEPT ![p] = "ro_credit"]
    /\ UNCHANGED <<store, nord, nupd, handler, body, res, pre, auth>>

\* lines 711-728: the credit, the refund transaction, wallet.save(), the answer
refundOrdersSave(p) ==
    /\ pc[p] = "ro_credit"
    /\ LET order == loc[p].orderDetails
           transaction == Transaction(nextTxId, "refund", order.finalAmount, body[p].id)
       IN  wallets' = [wallets EXCEPT ![order.userId] =
               IF @.exists
               THEN SavedWallet(@, CreditedBalance(loc[p].userWallet.balance,
                                                   order.finalAmount), transaction)
               ELSE [exists |-> TRUE,
                     balance |-> CreditedBalance(loc[p].userWallet.balance,
                                                 order.finalAmount),
                     transactions |-> Append(loc[p].userWallet.transactions, transaction)]]
    /\ nextTxId' = nextTxId + 1
    /\ Respond(p, 200)
    /\ UNCHANGED <<stock, orders, cart, nord, nupd, handler, body, loc, pre, auth>>

\* ---------------------------------------------------------------- requests
\* a line item within stock, a second item asking for more than its variant
\* has, an item asking for more than any variant has, no item at all
ItemLists ==
    {<< >>, <<Item("v1", 1)>>, <<Item("v1", 1), Item("v2", InitStock)>>,
     <<Item("v1", InitStock + 1)>>}

OrderBodies ==
    {[NoBody EXCEPT !.userId = u, !.products = items, !.paymentMethod = m,
                    !.totalAmount = 4,
                    !.razorpayOrderId = IF m = "RazorpayX" THEN "rzp1" ELSE "",
                    !.status = st] :
        u \in Users, items \in ItemLists, m \in {"Cash on Delivery", "RazorpayX"},
        st \in {"", "Payment Failed"}}

WalletBodies ==
    {[NoBody EXCEPT !.userId = u, !.products = items,
                    !.totalAmount = 4, !.finalAmount = f] :
        u \in Users, items \in ItemLists, f \in {2, InitBalance + 2}}

StatusInputs == ValidStatuses \cup {"", "Payment Failed"}

ReturnInputs ==
    {<<"Returned", r, d>> : r \in BOOLEAN, d \in BOOLEAN}
    \cup {<<"Cancelled", TRUE, TRUE>>, <<"", TRUE, TRUE>>}

\* the segments of a checkout after its first
CheckoutStep(p) ==
    \/ placeOrderCheckStock(p)
    \/ placeOrderSave(p)
    \/ \E k \in 1 .. 2 : placeOrderStockUpdate(p, k)
    \/ placeOrderClearCart(p)
    \/ placeWalletOrderCheckStock(p)
    \/ placeWalletOrderDebit(p)
    \/ placeWalletOrderSave(p)
    \/ \E k \in 1 .. 2 : placeWalletOrderStockUpdate(p, k)
    \/ placeWalletOrderClearCart(p)

\* the segments of a status update after its first
UpdateStep(p) ==
    \/ \E k \in 1 .. 2 : orderStatusUpdateCancelRestock(p, k)
    \/ \E k \in 1 .. 2 : orderStatusUpdateReturnFind(p, k)
    \/ \E k \in 1 .. 2 : orderStatusUpdateReturnSave(p, k)
    \/ processRefundFind(p)
    \/ processRefundSave(p)
    \/ orderStatusUpdateSave(p)
    \/ returnOrderStatusUpdateSave(p)

\* requests served one at a time
Next ==
    \/ nord < MaxOrders /\ \E b \in OrderBodies : placeOrder(1, b)
    \/ nord < MaxOrders /\ \E b \in WalletBodies : placeWalletOrder(1, b)
    \/ nupd < MaxUpdates /\ \E id \in 1 .. MaxOrders, status \in StatusInputs :
          orderStatusUpdate(1, id, status)
    \/ nupd < MaxUpdates /\ \E id \in 1 .. MaxOrders, in \in ReturnInputs :
          returnOrderStatusUpdate(1, id, in[1], in[2], in[3])
    \/ CheckoutStep(1)
    \/ UpdateStep(1)

Spec == Init /\ [][Next]_vars

\* ---------------------------------------------------------------- pricing
\* checkouts of one item over every coupon code, total and client finalAmount
PricingOrderBodies ==
    {[NoBody EXCEPT !.userId = "u1", !.products = <<Item("v1", 1)>>,
                    !.paymentMethod = m, !.couponCode = c,
                    !.totalAmount = t, !.finalAmount = f] :
        m \in {"Cash on Delivery", "RazorpayX"},
        c \in Coupons \cup {"", "NOPE"}, t \in {0, 2, 4, 8}, f \in {0, 2, 6}}

PricingWalletBodies ==
    {[NoBody EXCEPT !.userId = "u1", !.products = <<Item("v1", 1)>>,
                    !.couponCode = c, !.totalAmount = t, !.finalAmount = f] :
        c \in Coupons \cup {"", "NOPE"}, t \in {0, 2, 4, 8}, f \in {0, 2, 6}}

NextPricing ==
    \/ nord < MaxOrders /\ \E b \in PricingOrderBodies : placeOrder(1, b)
    \/ nord < MaxOrders /\ \E b \in PricingWalletBodies : placeWalletOrder(1, b)
    \/ placeOrderCheckStock(1)
    \/ placeOrderSave(1)
    \/ placeOrderStockUpdate(1, 1)
    \/ placeOrderClearCart(1)
    \/ placeWalletOrderCheckStock(1)
    \/ placeWalletOrderDebit(1)
    \/ placeWalletOrderSave(1)
    \/ placeWalletOrderStockUpdate(1, 1)
    \/ placeWalletOrderClearCart(1)

SpecPricing == Init /\ [][NextPricing]_vars

\* ---------------------------------------------------------------- line items
\* checkouts whose line items name the same variant twice, or ask for a
\* quantity of zero or below
LineItemLists ==
    {<<Item("v1", 1)>>, <<Item("v1", 1), Item("v1", InitStock)>>,
     <<Item("v1", InitStock), Item("v2", 1)>>,
     <<Item("v1", 0)>>, <<Item("v1", 1), Item("v2", 0)>>, <<Item("v2", 0 - 1)>>}

LineItemOrderBodies ==
    {[NoBody EXCEPT !.userId = "u1", !.products = items, !.paymentMethod = m,
                    !.totalAmount = 4, !.status = st] :
        items \in LineItemLists, m \in {"Cash on Delivery"},
        st \in {"", "Payment Failed"}}

LineItemWalletBodies ==
    {[NoBody EXCEPT !.userId = "u1", !.products = items,
                    !.totalAmount = 4, !.finalAmount = 2] : items \in LineItemLists}

NextLineItems ==
    \/ nord < MaxOrders + 1 /\ \E b \in LineItemOrderBodies : placeOrder(1, b)
    \/ nord < MaxOrders + 1 /\ \E b \in LineItemWalletBodies : placeWalletOrder(1, b)
    \/ CheckoutStep(1)

SpecLineItems == Init /\ [][NextLineItems]_vars

\* ---------------------------------------------------------------- payment
\* gateway, cash and wallet checkouts of one item, followed by verification
\* callbacks, cancellations, shipments and refund requests
PayOrderBodies ==
    {[NoBody EXCEPT !.userId = "u1", !.products = <<Item("v1", 1)>>,
                    !.paymentMethod = m[1], !.totalAmount = 4,
                    !.finalAmount = m[4],
                    !.razorpayOrderId = m[2], !.status = m[3]] :
        m \in {<<"Cash on Delivery", "", "", 0>>,
               <<"RazorpayX", "rzp1", "", 0>>,
               <<"RazorpayX", "", "", 0>>,
               <<"RazorpayX", "rzp1", "Payment Failed", 0>>,
               <<"RazorpayX", "rzp1", "", 0 - (InitBalance + 2)>>}}

PayWalletBodies ==
    {[NoBody EXCEPT !.userId = "u1", !.products = <<Item("v1", 1)>>,
                    !.totalAmount = 4, !.finalAmount = f] : f \in {2, 4}}

GatewayOrderIds == {"rzp1", "rzp2"}
PaymentIds == {"pay1", "pay2"}
Signatures ==
    {expectedSignature(o, q) : o \in GatewayOrderIds, q \in PaymentIds} \cup {"", "forged"}

NextPay ==
    \/ nord < MaxOrders /\ \E b \in PayOrderBodies : placeOrder(1, b)
    \/ nord < MaxOrders /\ \E b \in PayWalletBodies : placeWalletOrder(1, b)
    \/ nupd < MaxUpdates + 1 /\ \E o \in GatewayOrderIds, q \in PaymentIds, sg \in Signatures :
          verifyRazorpayPayment(1, o, q, sg)
    \/ nupd < MaxUpdates + 1 /\ \E id \in 1 .. MaxOrders, status \in {"Shipped", "Cancelled"} :
          orderStatusUpdate(1, id, status)
    \/ nupd < MaxUpdates + 1 /\ \E id \in 1 .. MaxOrders + 1 : refundOrders(1, id)
    \/ placeOrderCheckStock(1)
    \/ placeOrderSave(1)
    \/ placeOrderStockUpdate(1, 1)
    \/ placeOrderClearCart(1)
    \/ placeWalletOrderCheckStock(1)
    \/ placeWalletOrderDebit(1)
    \/ placeWalletOrderSave(1)
    \/ placeWalletOrderStockUpdate(1, 1)
    \/ placeWalletOrderClearCart(1)
    \/ orderStatusUpdateCancelRestock(1, 1)
    \/ processRefundFind(1)
    \/ processRefundSave(1)
    \/ orderStatusUpdateSave(1)
    \/ refundOrdersFind(1)
    \/ refundOrdersSave(1)

SpecPay == Init /\ [][NextPay]_vars

\* ---------------------------------------------------------------- concurrency
\* two checkouts of variant v1, the only variant in stock, interleaved at
\* their awaits; each slot serves one request
InitConc ==
    /\ stock = [v \in VariantIds |-> IF v = "v1" THEN InitStock ELSE 0]
    /\ InitStores
    /\ InitSlots

ConcOrderBodies ==
    {[NoBody EXCEPT !.userId = "u1", !.products = <<Item("v1", q)>>,
                    !.paymentMethod = "Cash on Delivery", !.totalAmount = 4] :
        q \in 1 .. InitStock}

ConcWalletBodies ==
    {[NoBody EXCEPT !.userId = "u1", !.products = <<Item("v1", q)>>,
                    !.totalAmount = 4, !.finalAmount = f] :
        q \in 1 .. InitStock, f \in {InitBalance - 1, InitBalance}}

NextConc ==
    \E p \in Procs :
        \/ pc[p] = "idle" /\ \E b \in ConcOrderBodies : placeOrder(p, b)
        \/ pc[p] = "idle" /\ \E b \in ConcWalletBodies : placeWalletOrder(p, b)
        \/ placeOrderCheckStock(p)
        \/ placeOrderSave(p)
        \/ placeOrderStockUpdate(p, 1)
        \/ placeOrderClearCart(p)
        \/ placeWalletOrderCheckStock(p)
        \/ placeWalletOrderDebit(p)
        \/ placeWalletOrderSave(p)
        \/ placeWalletOrderStockUpdate(p, 1)
        \/ placeWalletOrderClearCart(p)

SpecConc == InitConc /\ [][NextConc]_vars

\* ---------------------------------------------------------------- properties
\* the request in slot 1 has been answered
Answered(h) == pc[1] = "done" /\ handler[1] = h
IsCheckout == handler[1] \in {"placeOrder", "placeWalletOrder"}

\* no store differs from what it was when the request in slot p arrived
NothingMutated(p) ==
    /\ stock = pre[p].stock
    /\ orders = pre[p].orders
    /\ wallets = pre[p].wallets
    /\ cart = pre[p].cart

\* the order an answered status update names, as it was when the request arrived
Target == pre[1].orders[body[1].id]
HasTarget == body[1].id \in 1 .. Len(pre[1].orders)

\* C1: for any interleaving of concurrent checkout requests that order the
\* same variant, the variant's availableQuantity never drops below zero
C1_NeverOversold == \A v \in VariantIds : stock[v] >= 0

\* C2: when a line item of a checkout asks for more than the availableQuantity
\* of its variant, the request is answered 400 and no stock, order, cart or
\* wallet has changed
C2_OverAskRejected ==
    (/\ pc[1] = "done" /\ IsCheckout
     /\ \E k \in 1 .. Len(body[1].products) :
            body[1].products[k].quantity > pre[1].stock[body[1].products[k].variantId])
    => (res[1] = 400 /\ NothingMutated(1))

\* C3: every persisted order has finalAmount = max(totalAmount - discountAmount, 0)
\* and discountAmount <= totalAmount, whatever finalAmount the client sent
C3_FinalAmountDerived ==
    \A id \in 1 .. Len(orders) :
        /\ orders[id].finalAmount = Max(orders[id].totalAmount - orders[id].discountAmount, 0)
        /\ orders[id].discountAmount <= orders[id].totalAmount

\* C4: a wallet checkout whose finalAmount exceeds the balance, or whose user
\* has no wallet, is answered 400 and leaves wallet, orders, stock and cart as
\* they were
C4_InsufficientWalletRejected ==
    (/\ Answered("placeWalletOrder")
     /\ \/ ~pre[1].wallets[body[1].userId].exists
        \/ pre[1].wallets[body[1].userId].balance < body[1].finalAmount)
    => (res[1] = 400 /\ NothingMutated(1))

C4_Witness ==
    /\ Answered("placeWalletOrder")
    /\ body[1].products # << >>
    /\ pre[1].wallets[body[1].userId].exists
    /\ pre[1].wallets[body[1].userId].balance < body[1].finalAmount
    /\ res[1] = 400

AllowedEdges ==
    {<<"Processing", "Confirmed">>, <<"Confirmed", "Shipped">>,
     <<"Shipped", "Delivered">>, <<"Processing", "Cancelled">>,
     <<"Confirmed", "Cancelled">>, <<"Delivered", "Returned">>}

C6_OnlyAllowedEdges ==
    [][\A id \in 1 .. Len(orders) :
           orders'[id].orderStatus # orders[id].orderStatus
           => <<orders[id].orderStatus, orders'[id].orderStatus>> \in AllowedEdges]_vars

\* C7: a cancellation request for an order that is not in Processing or
\* Confirmed restocks nothing, refunds nothing and leaves the order as it was
C7_CancelOnlyFromOpen ==
    (/\ Answered("orderStatusUpdate") /\ body[1].status = "Cancelled"
     /\ HasTarget
     /\ Target.orderStatus \notin {"Processing", "Confirmed"})
    => NothingMutated(1)

\* C8: an accepted cancellation of an order in Processing or Confirmed has
\* raised every variant by the quantity the order holds of it, which is what
\* an accepted, not failed, checkout had lowered it by
C8_CancelRestoresStock ==
    /\ (/\ Answered("orderStatusUpdate") /\ body[1].status = "Cancelled"
        /\ HasTarget
        /\ Target.orderStatus \in {"Processing", "Confirmed"})
       => /\ res[1] = 200
          /\ \A v \in VariantIds :
                 stock[v] = pre[1].stock[v] + QtyOf(Target.products, v)
    /\ (/\ pc[1] = "done" /\ IsCheckout /\ res[1] = 201
        /\ orders[Len(orders)].orderStatus # "Payment Failed")
       => \A v \in VariantIds :
              stock[v] = pre[1].stock[v] - QtyOf(orders[Len(orders)].products, v)

C8_Witness ==
    /\ Answered("orderStatusUpdate") /\ body[1].status = "Cancelled"
    /\ HasTarget
    /\ Target.orderStatus = "Confirmed"
    /\ Len(Target.products) = 2
    /\ res[1] = 200

\* C9: a cancellation request for a Shipped or Delivered order is answered 400
\* and leaves orders, stock and wallets as they were
C9_CancelShippedRejected ==
    (/\ Answered("orderStatusUpdate") /\ body[1].status = "Cancelled"
     /\ HasTarget
     /\ Target.orderStatus \in {"Shipped", "Delivered"})
    => (res[1] = 400 /\ NothingMutated(1))

C9_Witness ==
    /\ Answered("orderStatusUpdate") /\ body[1].status = "Cancelled"
    /\ HasTarget
    /\ Target.orderStatus = "Delivered"
    /\ res[1] = 400

\* C10: an accepted cancellation has credited the owner's wallet with exactly
\* one refund of finalAmount when the order was paid through RazorpayX and its
\* paymentStatus was Completed, and has left every wallet as it was otherwise
C10_CancelRefundIff ==
    (/\ Answered("orderStatusUpdate") /\ body[1].status = "Cancelled"
     /\ res[1] = 200)
    => LET u == Target.userId
           w0 == pre[1].wallets[u]
       IN  IF Target.paymentMethod = "RazorpayX" /\ Target.paymentStatus = "Completed"
           THEN /\ wallets[u].exists
                /\ wallets[u].balance = w0.balance + Target.finalAmount
                /\ Len(wallets[u].transactions) = Len(w0.transactions) + 1
                /\ SubSeq(wallets[u].transactions, 1, Len(w0.transactions)) = w0.transactions
                /\ wallets[u].transactions[Len(wallets[u].transactions)].type = "refund"
                /\ wallets[u].transactions[Len(wallets[u].transactions)].amount
                       = Target.finalAmount
                /\ \A x \in Users \ {u} : wallets[x] = pre[1].wallets[x]
           ELSE wallets = pre[1].wallets

C10_Witness ==
    /\ Answered("orderStatusUpdate") /\ body[1].status = "Cancelled"
    /\ res[1] = 200
    /\ Target.paymentMethod = "RazorpayX" /\ Target.paymentStatus = "Completed"
    /\ Target.finalAmount > 0
    /\ wallets[Target.userId].balance
           = pre[1].wallets[Target.userId].balance + Target.finalAmount

IsReturn ==
    \/ handler[1] = "returnOrderStatusUpdate"
    \/ handler[1] = "orderStatusUpdate" /\ body[1].status = "Returned"

\* C11: a return request for an order that is not Delivered, and on the return
\* endpoint also one without returnReason or returnDescription, is answered
\* 400; a return request answered 400 leaves orders, stock and wallets as they
\* were
C11_ReturnRejected ==
    /\ (/\ Answered("orderStatusUpdate") /\ body[1].status = "Returned"
        /\ HasTarget /\ Target.orderStatus # "Delivered")
       => res[1] = 400
    /\ (/\ Answered("returnOrderStatusUpdate") /\ body[1].status = "Returned"
        /\ HasTarget
        /\ \/ Target.orderStatus # "Delivered"
           \/ ~body[1].returnReason
           \/ ~body[1].returnDescription)
       => res[1] = 400
    /\ (pc[1] = "done" /\ IsReturn /\ res[1] = 400) => NothingMutated(1)

C11_Witness ==
    /\ Answered("returnOrderStatusUpdate") /\ body[1].status = "Returned"
    /\ HasTarget /\ Target.orderStatus = "Shipped"
    /\ body[1].returnReason /\ body[1].returnDescription
    /\ res[1] = 400

\* C12: an accepted return of a Delivered order, through either endpoint, has
\* raised every variant by the quantity the order holds of it and has recorded
\* returnDetails on the order
C12_ReturnRestocksAndRecords ==
    (pc[1] = "done" /\ IsReturn /\ res[1] = 200)
    => /\ \A v \in VariantIds :
              stock[v] = pre[1].stock[v] + QtyOf(Target.products, v)
       /\ orders[body[1].id].returnDetails

\* wallet w is wallet w0 with one refund of amount appended and credited
CreditedOnce(w, w0, amount) ==
    /\ w.exists
    /\ w.balance = w0.balance + amount
    /\ Len(w.transactions) = Len(w0.transactions) + 1
    /\ SubSeq(w.transactions, 1, Len(w0.transactions)) = w0.transactions
    /\ w.transactions[Len(w.transactions)].type = "refund"
    /\ w.transactions[Len(w.transactions)].amount = amount

\* C13: an accepted return has appended exactly one refund transaction of
\* finalAmount to the owner's wallet and raised its balance by finalAmount when
\* the order's paymentStatus was Completed, and has left every wallet as it was
\* otherwise
C13_ReturnRefund ==
    (pc[1] = "done" /\ IsReturn /\ res[1] = 200)
    => IF Target.paymentStatus = "Completed"
       THEN /\ CreditedOnce(wallets[Target.userId], pre[1].wallets[Target.userId],
                            Target.finalAmount)
            /\ \A x \in Users \ {Target.userId} : wallets[x] = pre[1].wallets[x]
       ELSE wallets = pre[1].wallets

C13_Witness ==
    /\ pc[1] = "done" /\ IsReturn /\ res[1] = 200
    /\ Target.paymentStatus = "Completed"
    /\ Target.paymentMethod = "Cash on Delivery"
    /\ Target.finalAmount > 0
    /\ pre[1].wallets[Target.userId].exists
    /\ wallets[Target.userId].balance
           = pre[1].wallets[Target.userId].balance + Target.finalAmount

\* what returnOrderStatusUpdate (lines 430-470) makes of the stores s0 when it
\* accepts the return of order id: s1
returnOrderEffect(s0, s1, id) ==
    LET o == s0.orders[id]
    IN  /\ s1.stock = s0.stock
        /\ s1.cart = s0.cart
        /\ Len(s1.orders) = Len(s0.orders)
        /\ \A j \in 1 .. Len(s0.orders) : j # id => s1.orders[j] = s0.orders[j]
        /\ s1.orders[id] = [o EXCEPT !.orderStatus = "Returned", !.returnDetails = TRUE]
        /\ IF o.paymentStatus = "Completed"
           THEN CreditedOnce(s1.wallets[o.userId], s0.wallets[o.userId], o.finalAmount)
           ELSE s1.wallets = s0.wallets

\* every accepted request of the return endpoint has that effect
ReturnEndpointEffect ==
    (Answered("returnOrderStatusUpdate") /\ res[1] = 200)
    => returnOrderEffect(pre[1], Snapshot, body[1].id)

\* C14: an accepted return through the status endpoint leaves the stock, the
\* wallet, and the order's status, paymentStatus and returnDetails that the
\* return endpoint leaves for the same order from the same stores
C14_SameSideEffects ==
    (Answered("orderStatusUpdate") /\ body[1].status = "Returned" /\ res[1] = 200)
    => returnOrderEffect(pre[1], Snapshot, body[1].id)

\* C15: a verification request whose signature is not the HMAC of
\* razorpay_order_id | razorpay_payment_id is answered 400 and leaves every
\* order, and every other store, as it was
C15_ForgedSignatureRejected ==
    (/\ Answered("verifyRazorpayPayment")
     /\ body[1].razorpay_signature
            # expectedSignature(body[1].razorpay_order_id, body[1].razorpay_payment_id))
    => (res[1] = 400 /\ NothingMutated(1))

\* a signature that is authentic for another payment id, sent for an order
\* whose payment failed
C15_Witness ==
    /\ Answered("verifyRazorpayPayment")
    /\ body[1].razorpay_signature = expectedSignature(body[1].razorpay_order_id, "pay2")
    /\ body[1].razorpay_payment_id = "pay1"
    /\ MatchingOrder(orders, body[1].razorpay_order_id) # 0
    /\ orders[MatchingOrder(orders, body[1].razorpay_order_id)].paymentStatus = "Failed"
    /\ res[1] = 400

RefundsFor(w, orderId) ==
    {k \in 1 .. Len(w.transactions) :
        w.transactions[k].type = "refund" /\ w.transactions[k].description = orderId}

\* C16: every run of processRefund, also one for an order the wallet already
\* holds a refund for, raises the owner's balance by the order's finalAmount and
\* appends one refund transaction whose transaction id no earlier entry has
C16_EveryRefundCredits ==
    [][pc[1] = "rf_save" /\ pc'[1] # "rf_save"
       => LET u == loc[1].orderDetails.userId
              w == wallets'[u]
          IN  /\ CreditedOnce(w, wallets[u], loc[1].orderDetails.finalAmount)
              /\ w.transactions[Len(w.transactions)].description = body[1].id
              /\ \A k \in 1 .. Len(wallets[u].transactions) :
                    wallets[u].transactions[k].transaction_id
                        # w.transactions[Len(w.transactions)].transaction_id]_vars

\* after the second refund of one order the log holds two refund entries for
\* it and the balance is higher by twice its finalAmount
C16_Witness ==
    /\ pc[1] = "done"
    /\ HasTarget
    /\ Target.finalAmount > 0
    /\ LET w == wallets[Target.userId]
       IN  /\ Len(w.transactions) = 2
           /\ Cardinality(RefundsFor(w, body[1].id)) = 2
           /\ w.transactions[1].transaction_id # w.transactions[2].transaction_id
           /\ w.balance = InitBalance + 2 * Target.finalAmount

\* C17: a refund request for an unknown order is answered 404, one for an
\* order that is not paid online, not Completed or not Cancelled is answered
\* 400, and both leave every wallet as it was; a refund request that has
\* changed a wallet was for an order paid online, Completed and Cancelled
C17_RefundOnlyWhenEligible ==
    /\ (Answered("refundOrders") /\ ~HasTarget) => (res[1] = 404 /\ NothingMutated(1))
    /\ (/\ Answered("refundOrders")
        /\ HasTarget
        /\ \/ Target.paymentMethod # "RazorpayX"
           \/ Target.paymentStatus # "Completed"
           \/ Target.orderStatus # "Cancelled")
       => (res[1] = 400 /\ NothingMutated(1))
    /\ (handler[1] = "refundOrders" /\ wallets # pre[1].wallets)
       => /\ HasTarget
          /\ Target.paymentMethod = "RazorpayX"
          /\ Target.paymentStatus = "Completed"
          /\ Target.orderStatus = "Cancelled"

\* a refund request for an order paid online and Completed that was shipped,
\* not cancelled
C17_Witness ==
    /\ Answered("refundOrders")
    /\ HasTarget
    /\ Target.paymentMethod = "RazorpayX"
    /\ Target.paymentStatus = "Completed"
    /\ Target.orderStatus = "Shipped"
    /\ res[1] = 400

\* C18: a placeOrder request with status Payment Failed that is accepted has
\* appended one order with orderStatus Payment Failed and paymentStatus Failed
\* and has changed nothing else: stock, cart and wallets are as they were; one
\* that is refused has changed nothing
C18_FailedPaymentPersistsOnly ==
    (Answered("placeOrder") /\ body[1].status = "Payment Failed")
    => IF res[1] = 201
       THEN /\ Len(orders) = Len(pre[1].orders) + 1
            /\ SubSeq(orders, 1, Len(pre[1].orders)) = pre[1].orders
            /\ orders[Len(orders)].orderStatus = "Payment Failed"
            /\ orders[Len(orders)].paymentStatus = "Failed"
            /\ orders[Len(orders)].products = body[1].products
            /\ stock = pre[1].stock
            /\ cart = pre[1].cart
            /\ wallets = pre[1].wallets
       ELSE res[1] = 400 /\ NothingMutated(1)

\* a failed gateway payment for one item that is in stock, the cart not empty
C18_Witness ==
    /\ Answered("placeOrder")
    /\ body[1].status = "Payment Failed"
    /\ body[1].paymentMethod = "RazorpayX"
    /\ body[1].products = <<Item("v1", 1)>>
    /\ res[1] = 201
    /\ cart[body[1].userId] = 1
    /\ Len(orders) = Len(pre[1].orders) + 1

\* C19: no step gives an existing order the status Payment Failed, no step
\* takes an order out of Payment Failed, and no step of a status update or
\* return request for an order that was Payment Failed changes stock or wallets
C19_PaymentFailedDeadEnd ==
    [][/\ \A id \in 1 .. Len(orders) :
            (orders'[id].orderStatus = "Payment Failed")
                <=> (orders[id].orderStatus = "Payment Failed")
       /\ (/\ handler'[1] \in {"orderStatusUpdate", "returnOrderStatusUpdate"}
           /\ body'[1].id \in 1 .. Len(pre'[1].orders)
           /\ pre'[1].orders[body'[1].id].orderStatus = "Payment Failed")
          => (stock' = stock /\ wallets' = wallets)]_vars

\* a code that names no coupon, an inactive coupon, or a coupon whose
\* validity end is not strictly after the time of the request
IneligibleCode(couponCode) ==
    /\ couponCode # ""
    /\ \/ couponCode \notin Coupons
       \/ CouponDoc(couponCode).isListed # "active"
       \/ ~(CouponDoc(couponCode).expireOn > Now)

\* C20: a checkout with an unknown, inactive or ended coupon code is answered
\* as the same checkout without a code is: a gateway or cash checkout is
\* accepted, a wallet checkout is refused only for its balance, and the order
\* created has discountAmount 0 and coupon null and is the order the request
\* without a code creates
C20_IneligibleCouponIgnored ==
    (pc[1] = "done" /\ IsCheckout /\ IneligibleCode(body[1].couponCode))
    => /\ res[1] \in {201, 400}
       /\ res[1] = 400
          <=> /\ handler[1] = "placeWalletOrder"
              /\ InsufficientBalance(pre[1].wallets[body[1].userId], body[1].finalAmount)
       /\ res[1] = 201
          => LET order == orders[Len(orders)]
                 plain == [body[1] EXCEPT !.couponCode = ""]
             IN  /\ Len(orders) = Len(pre[1].orders) + 1
                 /\ order.discountAmount = 0
                 /\ order.coupon = "null"
                 /\ order = IF handler[1] = "placeOrder"
                            THEN orderDataOf(plain, "null", 0)
                            ELSE walletOrderDataOf(plain, "null", 0)

\* a coupon that ends exactly at the time of the request, sent with a gateway
\* checkout that leaves finalAmount to the server
C20_Witness ==
    /\ Answered("placeOrder")
    /\ body[1].couponCode = "EDGE"
    /\ CouponDoc("EDGE").isListed = "active"
    /\ CouponDoc("EDGE").expireOn = Now
    /\ body[1].finalAmount = 0
    /\ res[1] = 201
    /\ orders[Len(orders)].finalAmount = body[1].totalAmount

\* a code whose coupon is active and ends strictly after the time of the request
EligibleCode(couponCode) ==
    /\ couponCode \in Coupons
    /\ CouponDoc(couponCode).isListed = "active"
    /\ CouponDoc(couponCode).expireOn > Now

\* C21: the order a checkout with an eligible coupon creates, by placeOrder
\* and by placeWalletOrder alike, carries the discount
\* min(totalAmount * offerPrice / 100, totalAmount) for a percentage coupon and
\* min(offerPrice, totalAmount) for a flat one, which lies between 0 and
\* totalAmount, so totalAmount - discountAmount is not negative
C21_DiscountClamped ==
    (pc[1] = "done" /\ IsCheckout /\ res[1] = 201 /\ EligibleCode(body[1].couponCode))
    => LET order == orders[Len(orders)]
           coupon == CouponDoc(body[1].couponCode)
           subtotal == body[1].totalAmount
       IN  /\ order.coupon = body[1].couponCode
           /\ coupon.CouponType = "percentage"
              => order.discountAmount * 100 = Min(subtotal * coupon.offerPrice, subtotal * 100)
           /\ coupon.CouponType = "flat"
              => order.discountAmount = Min(coupon.offerPrice, subtotal)
           /\ order.discountAmount >= 0
           /\ order.discountAmount <= subtotal
           /\ subtotal - order.discountAmount >= 0

\* a flat coupon worth more than the total of a wallet checkout
C21_Witness ==
    /\ Answered("placeWalletOrder")
    /\ res[1] = 201
    /\ EligibleCode(body[1].couponCode)
    /\ CouponDoc(body[1].couponCode).CouponType = "flat"
    /\ CouponDoc(body[1].couponCode).offerPrice > body[1].totalAmount
    /\ body[1].totalAmount > 0
    /\ orders[Len(orders)].discountAmount = body[1].totalAmount

TransactionIds(ws) ==
    UNION {{ws[u].transactions[k].transaction_id : k \in 1 .. Len(ws[u].transactions)} :
               u \in Users}

\* C22: no step modifies, reorders or removes a transaction of a wallet's log;
\* a step changes a wallet only by appending one transaction whose status is
\* completed and whose transaction id no earlier transaction has; the debit of
\* placeWalletOrder and the credits of processRefund and refundOrders each
\* append one
C22_LogAppendOnly ==
    [][/\ \A u \in Users :
            LET w == wallets[u]
                w1 == wallets'[u]
            IN  /\ w.exists => w1.exists
                /\ Len(w1.transactions) >= Len(w.transactions)
                /\ SubSeq(w1.transactions, 1, Len(w.transactions)) = w.transactions
                /\ w1 # w
                   => /\ Len(w1.transactions) = Len(w.transactions) + 1
                      /\ w1.transactions[Len(w1.transactions)].status = "completed"
                      /\ w1.transactions[Len(w1.transactions)].transaction_id
                             \notin TransactionIds(wallets)
       /\ (pc[1] \in {"wo_debit", "rf_save", "ro_credit"} /\ pc'[1] # pc[1])
          => \E u \in Users :
                Len(wallets'[u].transactions) = Len(wallets[u].transactions) + 1]_vars

\* a refund request served after the cancellation of the same order has
\* already refunded it: the log keeps the first refund and gains a second one
\* with another id
C22_Witness ==
    /\ Answered("refundOrders")
    /\ res[1] = 200
    /\ LET w == wallets[Target.userId]
           w0 == pre[1].wallets[Target.userId]
       IN  /\ Len(w0.transactions) = 1
           /\ Len(w.transactions) = 2
           /\ w.transactions[1] = w0.transactions[1]
           /\ w.transactions[2].transaction_id # w.transactions[1].transaction_id
           /\ w.transactions[2].status = "completed"

\* C23: a refund, by processRefund or by refundOrders, for a user who has no
\* wallet leaves the user with a wallet whose balance is the refunded amount
\* and whose log is that one refund transaction; a refund for a user who has a
\* wallet credits that wallet, its log kept, and opens none; no step removes
\* a wallet
C23_WalletOpenedByFirstCredit ==
    /\ [](\A u \in Users :
            (/\ pc[1] = "done"
             /\ handler[1] \in {"orderStatusUpdate", "refundOrders"}
             /\ wallets[u] # pre[1].wallets[u])
            => LET w == wallets[u]
                   w0 == pre[1].wallets[u]
               IN  /\ HasTarget
                   /\ u = Target.userId
                   /\ w.exists
                   /\ IF w0.exists
                      THEN CreditedOnce(w, w0, Target.finalAmount)
                      ELSE /\ w.balance = Target.finalAmount
                           /\ Len(w.transactions) = 1
                           /\ w.transactions[1].type = "refund"
                           /\ w.transactions[1].amount = Target.finalAmount)
    /\ [][\A u \in Users : wallets[u].exists => wallets'[u].exists]_vars

\* a refund request for a cancelled gateway order, verified after its
\* cancellation, of a user who had no wallet
C23_Witness ==
    /\ Answered("refundOrders")
    /\ res[1] = 200
    /\ ~pre[1].wallets[Target.userId].exists
    /\ Target.finalAmount > 0
    /\ wallets[Target.userId].exists
    /\ wallets[Target.userId].balance = Target.finalAmount
    /\ Len(wallets[Target.userId].transactions) = 1

\* C24: in every reachable state every wallet's balance is non-negative
C24_BalanceNonNegative == \A u \in Users : wallets[u].balance >= 0

\* C25: an accepted checkout that does not signal a payment failure has
\* appended one order in Processing whose paymentStatus is Pending for cash on
\* delivery and Completed for the gateway and for the wallet, has lowered each
\* variant's availableQuantity by the order's quantity of it, and has emptied
\* the user's cart
C25_CreatedOrderEffects ==
    (pc[1] = "done" /\ IsCheckout /\ res[1] = 201 /\ body[1].status # "Payment Failed")
    => LET order == orders[Len(orders)]
       IN  /\ Len(orders) = Len(pre[1].orders) + 1
           /\ order.orderStatus = "Processing"
           /\ order.paymentStatus =
                 IF handler[1] = "placeWalletOrder" THEN "Completed"
                 ELSE IF body[1].paymentMethod = "RazorpayX" THEN "Completed"
                 ELSE "Pending"
           /\ order.paymentMethod =
                 IF handler[1] = "placeWalletOrder" THEN "Wallet" ELSE body[1].paymentMethod
           /\ \A v \in VariantIds :
                 stock[v] = pre[1].stock[v] - QtyOf(body[1].products, v)
           /\ cart[body[1].userId] = 0

\* a cash-on-delivery checkout of one unit of v1, the cart not empty before
C25_Witness ==
    /\ Answered("placeOrder")
    /\ res[1] = 201
    /\ body[1].status = ""
    /\ body[1].paymentMethod = "Cash on Delivery"
    /\ body[1].products = <<Item("v1", 1)>>
    /\ orders[Len(orders)].paymentStatus = "Pending"
    /\ pre[1].cart[body[1].userId] = 1
    /\ stock["v1"] = pre[1].stock["v1"] - 1
    /\ stock["v2"] = pre[1].stock["v2"]

\* C26: a placeOrder request for the online gateway that has created an order
\* in Processing with paymentStatus Completed carried a gateway order id, and
\* every order that holds a gateway reference has the online gateway as its
\* paymentMethod
C26_GatewayOrderNeedsGatewayId ==
    /\ (/\ Answered("placeOrder")
        /\ res[1] = 201
        /\ body[1].paymentMethod = "RazorpayX"
        /\ orders[Len(orders)].orderStatus = "Processing"
        /\ orders[Len(orders)].paymentStatus = "Completed")
       => body[1].razorpayOrderId # ""
    /\ \A id \in 1 .. Len(orders) :
          orders[id].razorpay # NoRazorpay => orders[id].paymentMethod = "RazorpayX"

\* C27: whenever the availability check of a line item passes, in placeOrder
\* or in placeWalletOrder, the variant the item names has availableQuantity of
\* at least the requested quantity
C27_CheckedVariantHasStock ==
    [][(pc[1] \in {"po_check", "wo_check"} /\ pc'[1] # "done")
       => LET item == body[1].products[loc[1].i]
          IN  stock[item.variantId] >= item.quantity]_vars

\* C28: for every order a checkout has created and every variant, the
\* quantities of the variant summed over the order's line items do not exceed
\* the availableQuantity the variant had when the request was checked
C28_OrderWithinAvailability ==
    (pc[1] = "done" /\ IsCheckout /\ res[1] = 201)
    => \A v \in VariantIds :
          QtyOf(orders[Len(orders)].products, v) <= pre[1].stock[v]

\* C29: a checkout with a line item whose quantity is not above zero is
\* answered 400 with nothing changed, every persisted order has only line
\* items of quantity above zero, and no checkout raises a variant's
\* availableQuantity
C29_NonPositiveQuantityRejected ==
    /\ (/\ pc[1] = "done" /\ IsCheckout
        /\ \E k \in 1 .. Len(body[1].products) : body[1].products[k].quantity <= 0)
       => (res[1] = 400 /\ NothingMutated(1))
    /\ \A id \in 1 .. Len(orders) : \A k \in 1 .. Len(orders[id].products) :
          orders[id].products[k].quantity > 0
    /\ IsCheckout => \A v \in VariantIds : stock[v] <= pre[1].stock[v]

\* C30: an accepted status update to Processing or to Delivered leaves the
\* order with paymentStatus Completed whatever it was, and an accepted status
\* update to Confirmed, Shipped, Cancelled or Returned leaves the order's
\* paymentStatus as it was
C30_PaymentStatusForced ==
    (Answered("orderStatusUpdate") /\ res[1] = 200)
    => /\ orders[body[1].id].orderStatus = body[1].status
       /\ body[1].status \in {"Processing", "Delivered"}
          => orders[body[1].id].paymentStatus = "Completed"
       /\ body[1].status \in {"Confirmed", "Shipped", "Cancelled", "Returned"}
          => orders[body[1].id].paymentStatus = Target.paymentStatus

\* an order whose payment failed is set to Processing and counts as paid
C30_Witness ==
    /\ Answered("orderStatusUpdate")
    /\ res[1] = 200
    /\ body[1].status = "Processing"
    /\ Target.paymentStatus = "Failed"
    /\ orders[body[1].id].paymentStatus = "Completed"

\* C31: an accepted payment verification has stored the payment id and the
\* signature on the first order whose gateway order id matches and set its
\* paymentStatus to Completed, and has changed nothing else: stock, carts,
\* wallets, the other orders and the order's other fields, its orderStatus
\* among them, are as they were
C31_VerificationEffects ==
    (Answered("verifyRazorpayPayment") /\ res[1] = 200)
    => LET j == MatchingOrder(pre[1].orders, body[1].razorpay_order_id)
       IN  /\ stock = pre[1].stock
           /\ cart = pre[1].cart
           /\ wallets = pre[1].wallets
           /\ Len(orders) = Len(pre[1].orders)
           /\ \A id \in 1 .. Len(orders) : id # j => orders[id] = pre[1].orders[id]
           /\ j # 0
              => /\ orders[j].razorpay =
                       [orderId |-> body[1].razorpay_order_id,
                        paymentId |-> body[1].razorpay_payment_id,
                        signature |-> body[1].razorpay_signature]
                 /\ orders[j].paymentStatus = "Completed"
                 /\ orders[j].orderStatus = pre[1].orders[j].orderStatus
                 /\ [orders[j] EXCEPT !.razorpay = NoRazorpay, !.paymentStatus = ""]
                      = [pre[1].orders[j] EXCEPT !.razorpay = NoRazorpay,
                                                 !.paymentStatus = ""]

\* the verification of a gateway order whose payment had failed
C31_Witness ==
    /\ Answered("verifyRazorpayPayment")
    /\ res[1] = 200
    /\ MatchingOrder(pre[1].orders, body[1].razorpay_order_id) = 1
    /\ pre[1].orders[1].paymentStatus = "Failed"
    /\ pre[1].orders[1].orderStatus = "Payment Failed"
    /\ orders[1].paymentStatus = "Completed"
    /\ orders[1].razorpay.paymentId = body[1].razorpay_payment_id

\* C32: for every order the owner's wallet holds at most one refund
\* transaction, and that one of the order's finalAmount, so the refunds of an
\* order never add up to more than its finalAmount
C32_RefundedAtMostOnce ==
    \A id \in 1 .. Len(orders) :
        LET w == wallets[orders[id].userId]
        IN  /\ Cardinality(RefundsFor(w, id)) <= 1
            /\ \A k \in RefundsFor(w, id) : w.transactions[k].amount = orders[id].finalAmount

\* the availableQuantity of a variant in the initial state
InitialStock(v) == IF v = "v1" THEN InitStock ELSE InitStock - 1

\* the quantity of variant v in the orders that are Processing, Confirmed,
\* Shipped or Delivered
RECURSIVE LiveQty(_, _)
LiveQty(os, v) ==
    IF os = << >> THEN 0
    ELSE (IF Head(os).orderStatus \in {"Processing", "Confirmed", "Shipped", "Delivered"}
          THEN QtyOf(Head(os).products, v) ELSE 0)
         + LiveQty(Tail(os), v)

\* C33: whenever no request is being served, each variant's availableQuantity
\* plus its quantity in the orders that are Processing, Confirmed, Shipped or
\* Delivered is the variant's initial availableQuantity
C33_StockConserved ==
    pc[1] \in {"idle", "done"}
    => \A v \in VariantIds : stock[v] + LiveQty(orders, v) = InitialStock(v)

\* the sum of the refund amounts minus the sum of the debit ("wallet") amounts
\* of a transaction log
RECURSIVE LedgerSum(_)
LedgerSum(ts) ==
    IF ts = << >> THEN 0
    ELSE (IF Head(ts).type = "refund" THEN Head(ts).amount ELSE 0 - Head(ts).amount)
         + LedgerSum(Tail(ts))

\* C34: every step keeps a wallet's balance in line with its log: a wallet that
\* is created starts with the balance its log adds up to, and a step on an
\* existing wallet changes the balance by exactly what it appends to the log,
\* in every interleaving of two checkouts
C34_LedgerConsistent ==
    [][\A u \in Users :
          /\ (~wallets[u].exists /\ wallets'[u].exists)
             => wallets'[u].balance = LedgerSum(wallets'[u].transactions)
          /\ (wallets[u].exists /\ wallets'[u].exists)
             => wallets'[u].balance - LedgerSum(wallets'[u].transactions)
                = wallets[u].balance - LedgerSum(wallets[u].transactions)]_vars

\* C35: an order paid through the online gateway has paymentStatus Completed
\* only if a verification with an authentic signature was accepted for it, which
\* leaves the payment id and the signature in the order's gateway reference
C35_CompletedOnlyAfterVerification ==
    \A id \in 1 .. Len(orders) :
        (/\ orders[id].paymentMethod = "RazorpayX"
         /\ orders[id].paymentStatus = "Completed")
        => /\ orders[id].razorpay # NoRazorpay
           /\ orders[id].razorpay.paymentId # ""
           /\ isAuthentic(expectedSignature(orders[id].razorpay.orderId,
                                            orders[id].razorpay.paymentId),
                          orders[id].razorpay.signature)

\* ---------------------------------------------------------------------------
\* Storage failures: an awaited save of an order rejects, the handler's catch
\* block answers 500 and nothing of what the save would have written is stored

\* line 178 rejects, lines 214-220 answer
placeOrderSaveFails(p) ==
    /\ pc[p] = "po_save"
    /\ Respond(p, 500)
    /\ UNCHANGED <<store, nord, nupd, handler, body, loc, pre, auth>>

\* newOrder.save() of placeWalletOrder rejects after userWallet.save() of line
\* 278 has succeeded, lines 326-329 answer
placeWalletOrderSaveFails(p) ==
    /\ pc[p] = "wo_save"
    /\ Respond(p, 500)
    /\ UNCHANGED <<store, nord, nupd, handler, body, loc, pre, auth>>

\* line 595 rejects, lines 614-617 answer
orderStatusUpdateSaveFails(p) ==
    /\ pc[p] = "su_save"
    /\ Respond(p, 500)
    /\ UNCHANGED <<store, nord, nupd, handler, body, loc, pre, auth>>

\* orderDetails.save() of lines 444 or 465 rejects, lines 454-460 or 472-478
\* answer
returnOrderStatusUpdateSaveFails(p) ==
    /\ pc[p] = "ro_save"
    /\ Respond(p, 500)
    /\ UNCHANGED <<store, nord, nupd, handler, body, loc, pre, auth>>

\* requests served one at a time, each order save free to succeed or to fail
NextFail ==
    \/ nord < MaxOrders /\ \E b \in PayOrderBodies : placeOrder(1, b)
    \/ nord < MaxOrders /\ \E b \in PayWalletBodies : placeWalletOrder(1, b)
    \/ nupd < MaxUpdates /\ \E id \in 1 .. MaxOrders,
                               status \in {"Delivered", "Cancelled", "Returned"} :
          orderStatusUpdate(1, id, status)
    \/ nupd < MaxUpdates /\ \E id \in 1 .. MaxOrders :
          returnOrderStatusUpdate(1, id, "Returned", TRUE, TRUE)
    \/ placeOrderCheckStock(1)
    \/ placeOrderSave(1)
    \/ placeOrderSaveFails(1)
    \/ placeOrderStockUpdate(1, 1)
    \/ placeOrderClearCart(1)
    \/ placeWalletOrderCheckStock(1)
    \/ placeWalletOrderDebit(1)
    \/ placeWalletOrderSave(1)
    \/ placeWalletOrderSaveFails(1)
    \/ placeWalletOrderStockUpdate(1, 1)
    \/ placeWalletOrderClearCart(1)
    \/ orderStatusUpdateCancelRestock(1, 1)
    \/ orderStatusUpdateReturnFind(1, 1)
    \/ orderStatusUpdateReturnSave(1, 1)
    \/ processRefundFind(1)
    \/ processRefundSave(1)
    \/ orderStatusUpdateSave(1)
    \/ orderStatusUpdateSaveFails(1)
    \/ returnOrderStatusUpdateSave(1)
    \/ returnOrderStatusUpdateSaveFails(1)

SpecFail == Init /\ [][NextFail]_vars

\* C36: when a return or cancellation request has been answered, with success
\* or with an error, and its order's owner has been credited by it, the order
\* is stored as Returned or Cancelled
C36_RefundOnlyWithStatus ==
    (/\ pc[1] = "done"
     /\ handler[1] \in {"orderStatusUpdate", "returnOrderStatusUpdate"}
     /\ body[1].status \in {"Cancelled", "Returned"}
     /\ HasTarget
     /\ wallets[Target.userId] # pre[1].wallets[Target.userId])
    => orders[body[1].id].orderStatus \in {"Returned", "Cancelled"}

\* C37: when a checkout request has been answered, with success or with an
\* error, and it has debited a wallet or decremented a stock, it has stored its
\* order
C37_EffectsOnlyWithOrder ==
    (/\ pc[1] = "done"
     /\ IsCheckout
     /\ (wallets # pre[1].wallets \/ stock # pre[1].stock))
    => Len(orders) = Len(pre[1].orders) + 1

\* ---------------------------------------------------------------------------
\* The auth controller's handlers, served one at a time

orderVars == <<stock, orders, wallets, cart, nextTxId, nord, nupd, pc, handler, body, loc, res, pre>>

Answer(h, sid, email, password, otp, code, message, cookies) ==
    ares' = [n |-> ares.n + 1, handler |-> h, sid |-> sid, email |-> email,
             password |-> password, otp |-> otp, code |-> code, message |-> message,
             cookies |-> cookies]

\* lines 60-104; otp is what generateOtp() returns, emailSent what
\* sendVerificationEmail returns
signup(sid, email, password, confirmPassword, otp, emailSent) ==
    /\ IF password # confirmPassword
       THEN /\ Answer("signup", sid, email, password, "", 400, "Passwords do not match", {})
            /\ UNCHANGED <<session, generated>>
       ELSE IF UserFindOne(users, email) # 0
       THEN /\ Answer("signup", sid, email, password, "", 400,
                      "User with this email already exists", {})
            /\ UNCHANGED <<session, generated>>
       ELSE /\ generated' = [generated EXCEPT ![sid] = [by |-> "signup", otp |-> otp]]
            /\ IF ~emailSent
               THEN /\ Answer("signup", sid, email, password, "", 500,
                              "Failed to send verification email", {})
                    /\ session' = session
               ELSE /\ session' = [session EXCEPT ![sid] =
                           [userOtp |-> otp,
                            userData |-> [present |-> TRUE, email |-> email,
                                          password |-> password]]]
                    /\ Answer("signup", sid, email, password, "", 200,
                              "OTP sent successfully", {})
    /\ UNCHANGED <<users, orderVars>>

\* any submitted value passes once the session holds an OTP
OtpMatchesAny(userOtp, otp) == Truthy(userOtp)

\* line 116: req.session.userOtp && req.session.userOtp === otp
OtpMatches(userOtp, otp) == Truthy(userOtp) /\ userOtp = otp

\* lines 107-146; destructuring a null or undefined userData throws, and the
\* catch block answers 500
verifyOtp(sid, otp) ==
    /\ IF OtpMatches(session[sid].userOtp, otp)
       THEN IF ~session[sid].userData.present
            THEN /\ Answer("verifyOtp", sid, "", "", otp, 500, "Server error", {})
                 /\ UNCHANGED <<session, users>>
            ELSE /\ users' = Append(users, NewUser(session[sid].userData))
                 /\ session' = [session EXCEPT ![sid] =
                        [userOtp |-> "null", userData |-> NoUserData]]
                 /\ Answer("verifyOtp", sid, "", "", otp, 201,
                           "User registered successfully", {})
       ELSE /\ Answer("verifyOtp", sid, "", "", otp, 400, "Invalid OTP", {})
            /\ UNCHANGED <<session, users>>
    /\ UNCHANGED <<generated, orderVars>>

\* lines 151-183; the session's OTP is replaced before the mail is sent
resendOtp(sid, email, otp, emailSent) ==
    /\ IF ~Truthy(email)
       THEN /\ Answer("resendOtp", sid, email, "", "", 400,
                      "Email is required to resend OTP", {})
            /\ UNCHANGED <<session, generated>>
       ELSE /\ generated' = [generated EXCEPT ![sid] = [by |-> "resendOtp", otp |-> otp]]
            /\ session' = [session EXCEPT ![sid].userOtp = otp]
            /\ IF emailSent
               THEN Answer("resendOtp", sid, email, "", "", 200, "OTP resent successfully", {})
               ELSE Answer("resendOtp", sid, email, "", "", 500, "Failed to resend OTP", {})
    /\ UNCHANGED <<users, orderVars>>

\* lines 247-289; user.status is read before the !user test, so a null user
\* throws and the catch block answers 500
login(email, password) ==
    /\ LET k == UserFindOne(users, email)
       IN  IF k = 0
           THEN Answer("login", "", email, password, "", 500,
                       "An internal server error occurred", {})
           ELSE IF users[k].status = "blocked"
           THEN Answer("login", "", email, password, "", 400,
                       "Your account is temporarily restricted. Please contact support.", {})
           ELSE IF ~isPasswordValid(password, users[k].password)
           THEN Answer("login", "", email, password, "", 400, "Invalid email or password", {})
           ELSE Answer("login", "", email, password, "", 200, "User logged in",
                       {"accessToken", "refreshToken"})
    /\ UNCHANGED <<session, users, generated, orderVars>>

NextAuth ==
    \/ ares.n < MaxAuth
       /\ \E sid \in Sessions, email \in {"a@x", "c@x"}, confirmPassword \in Passwords,
             otp \in Otps, emailSent \in BOOLEAN :
              signup(sid, email, "pw1", confirmPassword, otp, emailSent)
    \/ ares.n < MaxAuth
       /\ \E sid \in Sessions, otp \in Otps \cup {"undefined"} : verifyOtp(sid, otp)
    \/ ares.n < MaxAuth
       /\ \E sid \in Sessions, email \in {"c@x", ""}, otp \in Otps, emailSent \in BOOLEAN :
              resendOtp(sid, email, otp, emailSent)
    \/ ares.n < MaxAuth
       /\ \E email \in Emails \cup {"d@x"}, password \in Passwords : login(email, password)

SpecAuth == Init /\ [][NextAuth]_vars

\* C38: a verifyOtp request adds a user only when the session's OTP is set and
\* equal to the submitted one, and then adds exactly the user of the session's
\* data; a verifyOtp answered 201 leaves the session's OTP and user data
\* cleared; a verifyOtp that follows an accepted one in the same session with
\* the same OTP is answered 400 and adds no user; when the session's last OTP
\* came from resendOtp, an accepted verifyOtp submitted that OTP
C38_OtpSingleUse ==
    [][LET sid == ares'.sid
       IN  ares'.handler = "verifyOtp" /\ ares'.n = ares.n + 1
           => /\ users' # users
                 => /\ Truthy(session[sid].userOtp)
                    /\ session[sid].userOtp = ares'.otp
                    /\ session[sid].userData.present
                    /\ users' = Append(users, NewUser(session[sid].userData))
                    /\ ares'.code = 201
              /\ ares'.code = 201
                 => /\ Len(users') = Len(users) + 1
                    /\ session'[sid].userOtp = "null"
                    /\ ~session'[sid].userData.present
              /\ (/\ ares.handler = "verifyOtp"
                  /\ ares.code = 201
                  /\ ares.sid = sid
                  /\ ares.otp = ares'.otp)
                 => (ares'.code = 400 /\ users' = users)
              /\ (ares'.code = 201 /\ generated[sid].by = "resendOtp")
                 => ares'.otp = generated[sid].otp]_vars

\* a session signed up, had its OTP resent, was verified with the resent OTP,
\* and the same OTP submitted again was answered 400
C38_Witness ==
    /\ ares.handler = "verifyOtp"
    /\ ares.code = 400
    /\ ares.n = 4
    /\ generated[ares.sid].by = "resendOtp"
    /\ ares.otp = generated[ares.sid].otp
    /\ session[ares.sid].userOtp = "null"
    /\ Len(users) = 3
    /\ users[3].email = "c@x"

\* C39: login answers 400 'Invalid email or password' without cookies when no
\* user has the email or the password does not match, 400 without cookies for
\* a blocked user, and sets both token cookies only for an existing user that
\* is not blocked and whose password matches
C39_LoginAnswers ==
    ares.handler = "login"
    => LET k == UserFindOne(users, ares.email)
       IN  /\ k = 0
              => /\ ares.code = 400
                 /\ ares.message = "Invalid email or password"
                 /\ ares.cookies = {}
           /\ (k # 0 /\ users[k].status = "blocked")
              => (ares.code = 400 /\ ares.cookies = {})
           /\ (k # 0 /\ users[k].status # "blocked"
               /\ ~isPasswordValid(ares.password, users[k].password))
              => /\ ares.code = 400
                 /\ ares.message = "Invalid email or password"
                 /\ ares.cookies = {}
           /\ ares.cookies # {}
              => /\ ares.cookies = {"accessToken", "refreshToken"}
                 /\ k # 0
                 /\ users[k].status # "blocked"
                 /\ isPasswordValid(ares.password, users[k].password)

====
